---------------------------- MODULE Spec2Model ----------------------------
(***************************************************************************)
(* Model of src/library_api/app.py: the RGT Library API.                   *)
(*                                                                         *)
(* The store is the three tables users, books and loans.  Every request   *)
(* handler runs with a session of its own (get_db): what it read stays in  *)
(* the handler (the ORM objects of its session), and its writes reach the  *)
(* tables at db.commit(), in one transaction.  Each SQL statement a        *)
(* handler emits before its commit is one step, so that handlers of        *)
(* concurrent requests interleave between their reads and their commit:    *)
(* the handlers are plain `def` functions, which FastAPI runs on a thread  *)
(* pool, and the code takes no lock and sets no isolation level.           *)
(*                                                                         *)
(* The store is the one of the default DATABASE_URL (line 20), SQLite:     *)
(*  - a read does not open a transaction, so another session's commit can  *)
(*    fall between two statements of a handler, also between the SELECT    *)
(*    and the DELETE of one flush;                                         *)
(*  - an integer primary key is the rowid: a new row gets the largest id   *)
(*    in the table plus one;                                               *)
(*  - foreign keys are not enforced, NOT NULL and UNIQUE are.              *)
(* The ORM writes the value the session computed (UPDATE ... SET           *)
(* available_copies = <value>), and raises StaleDataError when an UPDATE   *)
(* of a loaded row matches no row.                                         *)
(***************************************************************************)
EXTENDS Integers, Sequences, FiniteSets

VARIABLES
    users,    \* table users: sequence of rows, the id is the index
    books,    \* table books: function from the ids of the rows to the rows
    loans,    \* table loans: sequence of rows, the id is the index
    now,      \* datetime.utcnow(), in minutes
    req,      \* per request slot: the handler's position and its session's objects
    overlap,  \* history: pairs of slots whose current requests ran at the same time
    last      \* history: the request completed before the current one (sequential client)

vars == <<users, books, loans, now, req, overlap, last>>

-----------------------------------------------------------------------------
(* Bounds of the model *)
MaxBookId == 2      \* book ids stay within 1..MaxBookId
MaxCopies == 1      \* total_copies of a created book is at most this
MaxCopiesSeq == 2   \* the same, for the client that sends one request at a time
MaxLoans == 2       \* rows of the loans table
MaxTime == 1        \* the clock stops here

(* Settings *)
ACCESS_TOKEN_EXPIRE_MINUTES == 60
ADMIN_DEFAULT_USERNAME == "admin"

NULL == -1          \* returned_at IS NULL

Req == {"r1", "r2"}                 \* request slots: two requests can be in flight
Subjects == {"admin", "alice", "bob"}   \* the sub claim of presented tokens
SignupInputs ==                     \* SignupIn payloads
    {[username |-> "alice", email |-> "alice@x"],
     [username |-> "alice", email |-> "al@x"]}
ISBNs == {"isbn-a"}                 \* isbn values of create_book payloads
TwoISBNs == {"isbn-a", "isbn-b"}    \* the same, for a catalog of two titles
Keys == {"SECRET_KEY", "other"}     \* the key a presented token was signed with
ExpiresMinutes == {0}              \* expires_minutes of tokens made by hand

Ops == {"me", "my_loans", "create_book", "delete_book", "borrow", "return_book"}
AdminOps == {"create_book", "delete_book"}
WriteOps == {"create_book", "delete_book", "borrow", "return_book"}

-----------------------------------------------------------------------------
(* Helpers over the tables *)

RECURSIVE SetMax(_)
SetMax(S) == IF S = {} THEN 0
             ELSE LET x == CHOOSE y \in S : TRUE
                      m == SetMax(S \ {x})
                  IN IF x > m THEN x ELSE m

\* db.query(User).filter(User.username == username).first(): the id, or 0
UserByName(username) ==
    IF \E i \in 1..Len(users) : users[i].username = username
    THEN CHOOSE i \in 1..Len(users) : users[i].username = username
    ELSE 0

\* Loan ids of the rows with returned_at IS NULL of a book
ActiveLoans(b) == {i \in 1..Len(loans) : loans[i].book_id = b /\ loans[i].returned_at = NULL}

\* Loan ids of the rows of a book (the Book.loans relationship)
BookLoans(b) == {i \in 1..Len(loans) : loans[i].book_id = b}

\* Loan ids of the active rows of a (user, book) pair
ActivePair(u, b) == {i \in ActiveLoans(b) : loans[i].user_id = u}

\* Requests that are being handled
InFlight(r) == req[r].pc \notin {"idle", "done"}

Idle == [pc |-> "idle", op |-> "none", uid |-> 0, adm |-> FALSE, book_id |-> 0,
         loan_id |-> 0, isbn |-> "", total |-> 0, avail |-> 0, ts |-> 0,
         status |-> 0, expired |-> FALSE, out |-> <<>>]

\* The slot after the handler returned or raised: the status of the response.
\* The session is closed (get_db), its objects are gone; a borrow keeps, as
\* history, who asked for which book and the copy count the handler read, and
\* a return_book answered 200 who returned which loan.
\* expired is history too: the request came with a token whose exp had passed.
Done(q, code) ==
    IF q.op = "borrow"
    THEN [Idle EXCEPT !.pc = "done", !.op = q.op, !.status = code, !.uid = q.uid,
                      !.book_id = q.book_id, !.avail = q.avail, !.expired = q.expired]
    ELSE IF q.op = "return_book" /\ code = 200
    THEN [Idle EXCEPT !.pc = "done", !.op = q.op, !.status = code, !.uid = q.uid,
                      !.loan_id = q.loan_id, !.expired = q.expired]
    ELSE [Idle EXCEPT !.pc = "done", !.op = q.op, !.status = code,
                      !.expired = q.expired]

-----------------------------------------------------------------------------
(* Tokens *)

\* create_access_token(sub, expires_minutes), called at time t with key k
create_access_token(sub, expires_minutes, t, k) ==
    [sub |-> sub, exp |-> t + expires_minutes, key |-> k]

\* The signature check of jwt.decode(token, SECRET_KEY, algorithms=[ALGORITHM])
SignatureOk(tok) == tok.key = "SECRET_KEY"

\* jwt.decode called with the exp check left out
NotExpired_unchecked(tok) == TRUE

\* The exp check of jwt.decode: the token is refused once exp is before the
\* current time
NotExpired(tok) == ~(tok.exp < now)

\* get_current_user, lines 159-166: why it raises its 401, or "" when it
\* returns the user
AuthError(tok) ==
    IF ~SignatureOk(tok) THEN "signature"
    ELSE IF ~NotExpired(tok) THEN "expired"
    ELSE IF UserByName(tok.sub) = 0 THEN "user"
    ELSE ""

\* get_current_user: the user's id, or 0 for the 401 it raises
get_current_user(tok) ==
    IF AuthError(tok) # "" THEN 0 ELSE UserByName(tok.sub)

\* require_admin that lets every user through
require_admin_skipped(u) == FALSE

\* require_admin: TRUE when the 403 is raised
require_admin_fails(u) == ~users[u].is_admin

\* Tokens a client can present now for subject s: one of the default lifetime
\* from a login just made, signed with each of the keys, and those of a
\* lifetime in `minutes` made at the start or just now
Tokens(minutes, keys) ==
    {create_access_token(s, ACCESS_TOKEN_EXPIRE_MINUTES, now, k) :
        s \in Subjects, k \in keys}
    \cup {create_access_token(s, m, t, "SECRET_KEY") :
        s \in Subjects, m \in minutes, t \in {0, now}}

-----------------------------------------------------------------------------
\* The loan of the client's latest response that carried one (LoanOut): which
\* operation answered with it, and its id
NoLoan == [op |-> "none", loan_id |-> 0]
LastLoan(q, prev) ==
    IF q.pc = "done" /\ q.op \in {"borrow", "return_book"}
    THEN IF q.status \in {200, 201} THEN [op |-> q.op, loan_id |-> q.loan_id] ELSE NoLoan
    ELSE IF q.pc = "done" THEN NoLoan ELSE prev

-----------------------------------------------------------------------------
Init ==
    /\ users = << [username |-> ADMIN_DEFAULT_USERNAME, email |-> "admin@local",
                   is_admin |-> TRUE] >>
    /\ books = << >>
    /\ loans = << >>
    /\ now = 0
    /\ req = [r \in Req |-> Idle]
    /\ overlap = {}
    /\ last = NoLoan

-----------------------------------------------------------------------------
(* POST /auth/signup *)

\* A signup that takes the flag from somewhere else than the literal False
NewUser_admin(data) ==
    [username |-> data.username, email |-> data.email, is_admin |-> TRUE]

\* lines 181-187: the row of the new user, is_admin=False
NewUser(data) ==
    [username |-> data.username, email |-> data.email, is_admin |-> FALSE]

signup(data) ==
    /\ ~\E i \in 1..Len(users) :
           users[i].username = data.username \/ users[i].email = data.email
    /\ users' = Append(users, NewUser(data))
    /\ UNCHANGED <<books, loans, now, req>>

(* The clock *)
Tick ==
    /\ now < MaxTime
    /\ now' = now + 1
    /\ UNCHANGED <<users, books, loans, req>>

-----------------------------------------------------------------------------
(* A request arrives: FastAPI resolves the handler's dependencies            *)
(* (get_current_user, require_admin), then validates the body, then calls   *)
(* the handler.                                                             *)

\* Requests in flight that will insert a row when they commit
Pending(op) == Cardinality({s \in Req : InFlight(s) /\ req[s].op = op})

Arrive(r, op, tok, b, l, isbn, total) ==
    LET u == get_current_user(tok)
        q == [Idle EXCEPT !.op = op, !.uid = u, !.expired = tok.exp < now,
                          !.book_id = IF op \in {"delete_book", "borrow"} THEN b ELSE 0,
                          !.loan_id = IF op = "return_book" THEN l ELSE 0]
    IN
    /\ ~InFlight(r)
    /\ op = "borrow" => Len(loans) + Pending("borrow") < MaxLoans
    /\ op = "create_book" => SetMax(DOMAIN books) + Pending("create_book") < MaxBookId
    /\ req' = [req EXCEPT ![r] =
                 IF u = 0 THEN Done(q, 401)
                 ELSE IF op \in AdminOps /\ require_admin_fails(u) THEN Done(q, 403)
                 ELSE IF op = "create_book" /\ total < 1 THEN Done(q, 422)
                 ELSE [q EXCEPT !.pc = "run", !.adm = users[u].is_admin,
                                !.isbn = IF op = "create_book" THEN isbn ELSE "",
                                !.total = IF op = "create_book" THEN total ELSE 0]]
    /\ UNCHANGED <<users, books, loans, now>>

-----------------------------------------------------------------------------
(* GET /users/me *)
me(r) ==
    /\ req[r].pc = "run" /\ req[r].op = "me"
    /\ req' = [req EXCEPT ![r] = Done(@, 200)]
    /\ UNCHANGED <<users, books, loans, now>>

\* The user's loans in the order of the table, order_by(Loan.id.asc())
RECURSIVE LoansAsc(_, _)
LoansAsc(u, n) ==
    IF n = 0 THEN << >>
    ELSE IF loans[n].user_id = u THEN LoansAsc(u, n - 1) \o <<n>>
    ELSE LoansAsc(u, n - 1)

(* GET /users/me/loans: the user's loans, order_by(Loan.id.desc()) *)
RECURSIVE LoansDesc(_, _)
LoansDesc(u, n) ==
    IF n = 0 THEN << >>
    ELSE IF loans[n].user_id = u THEN <<n>> \o LoansDesc(u, n - 1)
    ELSE LoansDesc(u, n - 1)

my_loans(r) ==
    /\ req[r].pc = "run" /\ req[r].op = "my_loans"
    /\ req' = [req EXCEPT ![r] = [Done(@, 200) EXCEPT !.out = LoansDesc(req[r].uid, Len(loans))]]
    /\ UNCHANGED <<users, books, loans, now>>

-----------------------------------------------------------------------------
(* POST /books *)

\* create_book without the isbn query, on a table without the unique index
IsbnExists_unchecked(isbn) == FALSE

\* A row of books has this isbn (the query of line 212, the unique index of
\* line 74)
IsbnExists(isbn) == \E i \in DOMAIN books : books[i].isbn = isbn

\* line 212: the isbn query
create_book_check(r) ==
    /\ req[r].pc = "run" /\ req[r].op = "create_book"
    /\ req' = [req EXCEPT ![r] =
                 IF IsbnExists(req[r].isbn) THEN Done(@, 400) ELSE [@ EXCEPT !.pc = "commit"]]
    /\ UNCHANGED <<users, books, loans, now>>

\* The row a create_book inserts
NewBook(isbn, total) ==
    [isbn |-> isbn, total_copies |-> total, available_copies |-> total]

\* line 219: INSERT and commit; the unique index on isbn refuses a duplicate
create_book_commit(r) ==
    /\ req[r].pc = "commit" /\ req[r].op = "create_book"
    /\ IF IsbnExists(req[r].isbn)
       THEN /\ req' = [req EXCEPT ![r] = Done(@, 500)]
            /\ UNCHANGED books
       ELSE LET id == SetMax(DOMAIN books) + 1 IN
            /\ books' = [i \in DOMAIN books \cup {id} |->
                           IF i = id THEN NewBook(req[r].isbn, req[r].total) ELSE books[i]]
            /\ req' = [req EXCEPT ![r] = [Done(@, 201) EXCEPT !.book_id = id]]
    /\ UNCHANGED <<users, loans, now>>

-----------------------------------------------------------------------------
(* DELETE /books/{book_id} *)

\* line 241: db.get(Book, book_id)
delete_book_get(r) ==
    /\ req[r].pc = "run" /\ req[r].op = "delete_book"
    /\ req' = [req EXCEPT ![r] =
                 IF req[r].book_id \notin DOMAIN books THEN Done(@, 404)
                 ELSE [@ EXCEPT !.pc = "count"]]
    /\ UNCHANGED <<users, books, loans, now>>

\* line 243: the count of the book's loans with returned_at IS NULL
delete_book_count(r) ==
    /\ req[r].pc = "count" /\ req[r].op = "delete_book"
    /\ req' = [req EXCEPT ![r] =
                 IF ActiveLoans(req[r].book_id) # {} THEN Done(@, 409)
                 ELSE [@ EXCEPT !.pc = "flush"]]
    /\ UNCHANGED <<users, books, loans, now>>

\* The loans a deleted book's flush detaches: those of the relationship
\* Book.loans (line 80, no delete cascade), loaded when the flush starts
Detached(b) == BookLoans(b)

\* line 245, db.delete(book); db.commit(), first half: the flush loads
\* book.loans and sets each one's book_id to NULL; loans.book_id is NOT NULL
\* (line 86), so any such loan ends the request with an IntegrityError
delete_book_flush(r) ==
    /\ req[r].pc = "flush" /\ req[r].op = "delete_book"
    /\ req' = [req EXCEPT ![r] =
                 IF Detached(req[r].book_id) # {} THEN Done(@, 500)
                 ELSE [@ EXCEPT !.pc = "commit"]]
    /\ UNCHANGED <<users, books, loans, now>>

\* line 245, second half: DELETE FROM books WHERE id = book_id, and the commit
delete_book_commit(r) ==
    /\ req[r].pc = "commit" /\ req[r].op = "delete_book"
    /\ books' = [i \in DOMAIN books \ {req[r].book_id} |-> books[i]]
    /\ req' = [req EXCEPT ![r] = Done(@, 204)]
    /\ UNCHANGED <<users, loans, now>>

-----------------------------------------------------------------------------
(* POST /loans *)

\* borrow without the check of line 253
HasCopies_unchecked(seen) == TRUE

\* line 253: the copy of the book this session read has a copy left
HasCopies(seen) == ~(seen <= 0)

\* lines 251-254: db.get(Book, book_id) and the check of the copy it read
borrow_get(r) ==
    /\ req[r].pc = "run" /\ req[r].op = "borrow"
    /\ req' = [req EXCEPT ![r] =
                 IF req[r].book_id \notin DOMAIN books THEN Done(@, 404)
                 ELSE IF ~HasCopies(books[req[r].book_id].available_copies)
                      THEN [Done(@, 409) EXCEPT
                                !.avail = books[req[r].book_id].available_copies]
                 ELSE [@ EXCEPT !.pc = "active",
                                !.avail = books[req[r].book_id].available_copies]]
    /\ UNCHANGED <<users, books, loans, now>>

\* lines 256-258: the query for an active loan of (user, book)
borrow_active(r) ==
    /\ req[r].pc = "active" /\ req[r].op = "borrow"
    /\ req' = [req EXCEPT ![r] =
                 IF ActivePair(req[r].uid, req[r].book_id) # {} THEN Done(@, 409)
                 ELSE [@ EXCEPT !.pc = "commit"]]
    /\ UNCHANGED <<users, books, loans, now>>

\* The value line 259 gives book.available_copies: computed from the copy
\* this session read, `seen`
Decremented(seen) == seen - 1

\* A loan made out to the first user of the table instead of the caller
NewLoan_first_user(uid, b) == [user_id |-> 1, book_id |-> b, returned_at |-> NULL]

\* line 260: Loan(user_id=user.id, book_id=book.id); returned_at stays NULL
NewLoan(uid, b) == [user_id |-> uid, book_id |-> b, returned_at |-> NULL]

\* lines 259-261: the commit writes UPDATE books SET available_copies = <value>
\* WHERE id = book_id, and INSERTs the loan; an UPDATE that matches no row
\* raises StaleDataError and the transaction is rolled back
borrow_commit(r) ==
    /\ req[r].pc = "commit" /\ req[r].op = "borrow"
    /\ IF req[r].book_id \notin DOMAIN books
       THEN /\ req' = [req EXCEPT ![r] = Done(@, 500)]
            /\ UNCHANGED <<books, loans>>
       ELSE /\ books' = [books EXCEPT ![req[r].book_id].available_copies =
                                          Decremented(req[r].avail)]
            /\ loans' = Append(loans, NewLoan(req[r].uid, req[r].book_id))
            /\ req' = [req EXCEPT ![r] = [Done(@, 201) EXCEPT !.loan_id = Len(loans) + 1]]
    /\ UNCHANGED <<users, now>>

-----------------------------------------------------------------------------
(* POST /loans/{loan_id}/return *)

\* return_book without the owner check of line 268
MayReturn_anyone(owner, uid, adm) == TRUE

\* line 268 without `and not user.is_admin`: only the owner may return
MayReturn_owner_only(owner, uid, adm) == owner = uid

\* line 268: the caller may return this loan
MayReturn(owner, uid, adm) == ~(owner # uid /\ ~adm)

\* return_book without the already-returned check of line 270
NotReturned_unchecked(returned_at) == TRUE

\* line 270: the loan is still out
NotReturned(returned_at) == ~(returned_at # NULL)

\* db.get(Book, loan_id): the loan's id taken for the book's
LoanBook_by_loan_id(l) == l

\* line 273: the book a return increments is the one of the loan, loan.book_id
LoanBook(l) == loans[l].book_id

\* lines 266-272: db.get(Loan, loan_id), the checks, and the timestamp
return_book_get(r) ==
    /\ req[r].pc = "run" /\ req[r].op = "return_book"
    /\ req' = [req EXCEPT ![r] =
                 IF req[r].loan_id \notin 1..Len(loans) THEN Done(@, 404)
                 ELSE LET loan == loans[req[r].loan_id]
                          q == [@ EXCEPT !.book_id = LoanBook(req[r].loan_id)]
                      IN IF ~MayReturn(loan.user_id, req[r].uid, req[r].adm) THEN Done(q, 403)
                         ELSE IF ~NotReturned(loan.returned_at) THEN Done(q, 409)
                         ELSE [q EXCEPT !.pc = "book", !.ts = now]]
    /\ UNCHANGED <<users, books, loans, now>>

\* line 273: db.get(Book, loan.book_id); line 274 fails on a missing book
return_book_book(r) ==
    /\ req[r].pc = "book" /\ req[r].op = "return_book"
    /\ req' = [req EXCEPT ![r] =
                 IF req[r].book_id \notin DOMAIN books THEN Done(@, 500)
                 ELSE [@ EXCEPT !.pc = "commit",
                                !.avail = books[req[r].book_id].available_copies]]
    /\ UNCHANGED <<users, books, loans, now>>

\* The value line 274 gives book.available_copies
Incremented(seen) == seen + 1

\* lines 274-275: the commit writes both UPDATEs, or neither (StaleDataError)
return_book_commit(r) ==
    /\ req[r].pc = "commit" /\ req[r].op = "return_book"
    /\ IF req[r].book_id \notin DOMAIN books
       THEN /\ req' = [req EXCEPT ![r] = Done(@, 500)]
            /\ UNCHANGED <<books, loans>>
       ELSE /\ books' = [books EXCEPT ![req[r].book_id].available_copies =
                                          Incremented(req[r].avail)]
            /\ loans' = [loans EXCEPT ![req[r].loan_id].returned_at = req[r].ts]
            /\ req' = [req EXCEPT ![r] = [Done(@, 200) EXCEPT !.loan_id = req[r].loan_id]]
    /\ UNCHANGED <<users, now>>

-----------------------------------------------------------------------------
(* A handler that raises before db.commit() has returned *)

\* The same without a transaction around the statements of the flush: the
\* UPDATE of the book, the first statement of the flush, stays when the
\* request fails after it
abort_partial(r) ==
    /\ InFlight(r)
    /\ req' = [req EXCEPT ![r] = Done(@, 500)]
    /\ IF req[r].pc = "commit" /\ req[r].op \in {"borrow", "return_book"}
          /\ req[r].book_id \in DOMAIN books
       THEN books' = [books EXCEPT ![req[r].book_id].available_copies =
                          IF req[r].op = "borrow" THEN Decremented(req[r].avail)
                          ELSE Incremented(req[r].avail)]
       ELSE UNCHANGED books
    /\ UNCHANGED <<users, loans, now>>

\* lines 39-44: the request ends with an exception (the store fails, the
\* worker is stopped) at any point up to the end of db.commit(); get_db closes
\* the session, the transaction is rolled back, and what the session had
\* changed (lines 259-260, 272-274) is dropped with it
abort(r) ==
    /\ InFlight(r)
    /\ req' = [req EXCEPT ![r] = Done(@, 500)]
    /\ UNCHANGED <<users, books, loans, now>>

-----------------------------------------------------------------------------
(* The steps of the handlers that only read *)
StepRead(r) ==
    \/ me(r)
    \/ my_loans(r)

(* The steps of the handlers that write *)
StepWrite(r) ==
    \/ create_book_check(r)
    \/ create_book_commit(r)
    \/ delete_book_get(r)
    \/ delete_book_count(r)
    \/ delete_book_flush(r)
    \/ delete_book_commit(r)
    \/ borrow_get(r)
    \/ borrow_active(r)
    \/ borrow_commit(r)
    \/ return_book_get(r)
    \/ return_book_book(r)
    \/ return_book_commit(r)

\* The arguments a request of operation op carries, with an isbn of isbns and
\* a total_copies up to copies: <<book_id, loan_id, isbn, total_copies>>
ArgsOf(op, isbns, copies) ==
    CASE op \in {"delete_book", "borrow"} -> {<<b, 0, "", 0>> : b \in 1..MaxBookId}
      [] op = "return_book" -> {<<0, l, "", 0>> : l \in 1..MaxLoans}
      [] op = "create_book" -> {<<0, 0, isbn, total>> : isbn \in isbns, total \in 0..copies}
      [] OTHER -> {<<0, 0, "", 0>>}

Args(op) == ArgsOf(op, ISBNs, MaxCopies)
SeqArgs(op) == ArgsOf(op, ISBNs, MaxCopiesSeq)

\* A request of one of the operations ops, with one of the tokens toks and
\* any argument
ArriveWith(r, ops, toks, isbns, copies) ==
    \E op \in ops, tok \in toks : \E a \in ArgsOf(op, isbns, copies) :
        Arrive(r, op, tok, a[1], a[2], a[3], a[4])

\* A request of one of the operations ops, with any token and any argument
AnyArrive(r, ops, minutes, keys) ==
    ArriveWith(r, ops, Tokens(minutes, keys), ISBNs, MaxCopies)

\* The token of the admin's login just made
AdminToken ==
    {create_access_token(ADMIN_DEFAULT_USERNAME, ACCESS_TOKEN_EXPIRE_MINUTES, now, "SECRET_KEY")}

\* The pairs of slots whose requests overlap, once a request arrives in r
Overlaps(r) ==
    {p \in overlap : r \notin p} \cup {{r, s} : s \in {x \in Req \ {r} : InFlight(x)}}

(* Concurrent clients: requests arrive while others are being handled.  The *)
(* clients hold tokens of the default lifetime.                             *)
Next ==
    \/ \E d \in SignupInputs : signup(d) /\ UNCHANGED <<overlap, last>>
    \/ \E r \in Req : /\ AnyArrive(r, WriteOps, {}, {"SECRET_KEY"})
                      /\ overlap' = Overlaps(r)
                      /\ UNCHANGED last
    \/ \E r \in Req : StepWrite(r) /\ UNCHANGED <<overlap, last>>

Spec == Init /\ [][Next]_vars

(* One client that waits for each response before its next request.         *)
NextSeq ==
    \/ \E d \in SignupInputs : signup(d) /\ UNCHANGED <<overlap, last>>
    \/ /\ ArriveWith("r1", Ops, Tokens({}, {"SECRET_KEY"}), ISBNs, MaxCopiesSeq)
       /\ last' = LastLoan(req["r1"], last)
       /\ UNCHANGED overlap
    \/ StepRead("r1") /\ UNCHANGED <<overlap, last>>
    \/ StepWrite("r1") /\ UNCHANGED <<overlap, last>>

SpecSeq == Init /\ [][NextSeq]_vars

(* The same client with tokens of any expiry and signature, while the       *)
(* clock runs.                                                              *)
NextAuth ==
    \/ \E d \in SignupInputs : signup(d) /\ UNCHANGED <<overlap, last>>
    \/ Tick /\ UNCHANGED <<overlap, last>>
    \/ AnyArrive("r1", Ops, ExpiresMinutes, Keys) /\ UNCHANGED <<overlap, last>>
    \/ StepRead("r1") /\ UNCHANGED <<overlap, last>>
    \/ StepWrite("r1") /\ UNCHANGED <<overlap, last>>

SpecAuth == Init /\ [][NextAuth]_vars

(* The sequential client, whose requests can fail at any point before the   *)
(* commit has ended.                                                        *)
NextAbort ==
    \/ \E d \in SignupInputs : signup(d) /\ UNCHANGED <<overlap, last>>
    \/ AnyArrive("r1", WriteOps, {}, {"SECRET_KEY"}) /\ UNCHANGED <<overlap, last>>
    \/ StepWrite("r1") /\ UNCHANGED <<overlap, last>>
    \/ abort("r1") /\ UNCHANGED <<overlap, last>>

SpecAbort == Init /\ [][NextAbort]_vars

(* Concurrent requests of the admin while the clock runs.                   *)
NextClock ==
    \/ Tick /\ UNCHANGED <<overlap, last>>
    \/ \E r \in Req : /\ ArriveWith(r, WriteOps, AdminToken, ISBNs, MaxCopies)
                      /\ UNCHANGED <<overlap, last>>
    \/ \E r \in Req : StepWrite(r) /\ UNCHANGED <<overlap, last>>

SpecClock == Init /\ [][NextClock]_vars

(* Concurrent requests of the admin on a catalog of two titles.             *)
NextTitles ==
    \/ \E r \in Req : /\ ArriveWith(r, WriteOps, AdminToken, TwoISBNs, MaxCopies)
                      /\ UNCHANGED <<overlap, last>>
    \/ \E r \in Req : StepWrite(r) /\ UNCHANGED <<overlap, last>>

SpecTitles == Init /\ [][NextTitles]_vars

-----------------------------------------------------------------------------
(* Properties *)

\* I1 for one book
I1(b) == books[b].available_copies =
             books[b].total_copies - Cardinality(ActiveLoans(b))

\* The slot's request ends in this step
Completes(r) == InFlight(r) /\ req'[r].pc = "done"

\* C1: after every committed operation, under any interleaving of borrow and
\* return requests, every book has
\* available_copies = total_copies - (number of its active loans).
C1_CopiesMatchActiveLoans == \A b \in DOMAIN books : I1(b)

\* C2: two borrow requests of two different users that run at the same time
\* on a book of which both read available_copies = 1 end as one 201 and one
\* 409, and then the book has available_copies = 0 and one active loan.
C2_LastCopyOneWinner ==
    \A r, s \in Req :
        (/\ r # s /\ {r, s} \in overlap
         /\ req[r].pc = "done" /\ req[r].op = "borrow"
         /\ req[s].pc = "done" /\ req[s].op = "borrow"
         /\ req[r].uid # 0 /\ req[s].uid # 0 /\ req[r].uid # req[s].uid
         /\ req[r].book_id = req[s].book_id
         /\ req[r].avail = 1 /\ req[s].avail = 1)
        => /\ {req[r].status, req[s].status} = {201, 409}
           /\ req[r].book_id \in DOMAIN books
           /\ books[req[r].book_id].available_copies = 0
           /\ Cardinality(ActiveLoans(req[r].book_id)) = 1

\* C3: in every reachable state every book has
\* 0 <= available_copies <= total_copies.
C3_AvailableWithinTotal ==
    \A b \in DOMAIN books :
        /\ 0 <= books[b].available_copies
        /\ books[b].available_copies <= books[b].total_copies

\* C4: in every reachable state a (user, book) pair has at most one active
\* loan, also when the user sends two borrow requests at the same time.
C4_OneActiveLoanPerPair ==
    \A u \in 1..Len(users), b \in 1..MaxBookId : Cardinality(ActivePair(u, b)) <= 1

\* C5: returning a loan twice in sequence: the first call, on the active loan,
\* answers 200, marks the loan returned and adds one to the book's
\* available_copies; the second call, right after it on the same loan id,
\* answers 409 and none of its steps changes books or loans.
C5_ReturnTwice ==
    [][LET q == req["r1"]
           l == q.loan_id
           second == last = [op |-> "return_book", loan_id |-> l]
       IN (q.op = "return_book" /\ InFlight("r1") /\ l \in 1..Len(loans)
           /\ MayReturn(loans[l].user_id, q.uid, q.adm))
          => /\ (Completes("r1") /\ ~second /\ loans[l].returned_at = NULL)
                => /\ req'["r1"].status = 200
                   /\ loans'[l].returned_at # NULL
                   /\ books'[q.book_id].available_copies =
                          books[q.book_id].available_copies + 1
             /\ second
                => /\ UNCHANGED <<books, loans>>
                   /\ Completes("r1") => req'["r1"].status = 409
      ]_vars

\* C5 witness: the second return of the loan was answered 409
C5_Witness ==
    /\ req["r1"].pc = "done" /\ req["r1"].op = "return_book" /\ req["r1"].status = 409
    /\ last.op = "return_book"
    /\ loans[last.loan_id].returned_at # NULL

\* C6: in every reachable state every active loan references a book that is
\* in the books table (no delete_book commits for a book with an active loan).
C6_ActiveLoanHasBook ==
    \A i \in 1..Len(loans) :
        loans[i].returned_at = NULL => loans[i].book_id \in DOMAIN books

\* C7: create_book(total_copies = 1), borrow, delete_book, return_book,
\* delete_book: the delete_book right after the borrow answers 409 and leaves
\* the book; the delete_book right after the return answers 204 and the book
\* is gone from the books table.
C7_DeleteAfterReturn ==
    [][LET q == req["r1"]
           b == q.book_id
       IN (/\ q.op = "delete_book" /\ Completes("r1")
           /\ last.op # "none" /\ loans[last.loan_id].book_id = b
           /\ b \in DOMAIN books /\ books[b].total_copies = 1)
          => IF last.op = "borrow"
             THEN req'["r1"].status = 409 /\ b \in DOMAIN books'
             ELSE req'["r1"].status = 204 /\ b \notin DOMAIN books'
      ]_vars

\* C8: a return_book request on an existing loan by a caller who is neither
\* the loan's owner nor an admin ends with 403, and books and loans are
\* unchanged.
C8_ReturnForbidden ==
    [][LET q == req["r1"]
           l == q.loan_id
       IN (/\ q.op = "return_book" /\ InFlight("r1") /\ req'["r1"] # q
           /\ l \in 1..Len(loans)
           /\ loans[l].user_id # q.uid /\ ~users[q.uid].is_admin)
          => /\ req'["r1"].pc = "done" /\ req'["r1"].status = 403
             /\ UNCHANGED <<books, loans>>
      ]_vars

\* C8 witness: alice's return of the admin's loan was answered 403
C8_Witness ==
    /\ req["r1"].pc = "done" /\ req["r1"].op = "return_book" /\ req["r1"].status = 403
    /\ Len(loans) >= 1

\* C9: create_book and delete_book called by an authenticated user who is no
\* admin end with 403 when the request arrives: no step of the handler runs,
\* and books and loans are unchanged.
C9_AdminRequired ==
    [][/\ (~InFlight("r1") /\ req'["r1"] # req["r1"])
          => \A op \in AdminOps : \A a \in SeqArgs(op) :
               \A tok \in Tokens({}, {"SECRET_KEY"}) :
                  LET u == UserByName(tok.sub)
                  IN (u # 0 /\ ~users[u].is_admin
                      /\ Arrive("r1", op, tok, a[1], a[2], a[3], a[4]))
                     => /\ req'["r1"].pc = "done" /\ req'["r1"].status = 403
                        /\ UNCHANGED <<books, loans>>
       /\ \A r \in Req :
            (req'[r].pc \notin {"idle", "done"} /\ req'[r].op \in AdminOps)
            => users'[req'[r].uid].is_admin
      ]_vars

\* C9 witness: a user who is no admin exists and an admin operation was
\* answered 403
C9_Witness ==
    /\ req["r1"].pc = "done" /\ req["r1"].op \in AdminOps /\ req["r1"].status = 403
    /\ \E u \in 1..Len(users) : ~users[u].is_admin

\* C10: a request that comes with a token whose exp is before the current
\* time is answered 401 by every protected operation as it arrives, with the
\* tables unchanged, and no step of a handler runs for it.
C10_ExpiredTokenRejected ==
    [][\A r \in Req :
          (req'[r].expired /\ req'[r] # req[r])
          => /\ req'[r].pc = "done" /\ req'[r].status = 401
             /\ UNCHANGED <<users, books, loans>>
      ]_vars

\* C10 witness: a borrow was answered 401 because its token had expired, at a
\* time when the book it could have asked for is there
C10_Witness ==
    /\ req["r1"].pc = "done" /\ req["r1"].status = 401 /\ req["r1"].expired
    /\ req["r1"].op = "borrow"
    /\ now > 0 /\ DOMAIN books # {}

\* C11: the counter write and the loan write of a borrow or a return_book
\* reach the tables in the same step or not at all: the step that answers
\* 201 or 200 changes both the book's available_copies and the loan (a new
\* active loan of the book, or the loan marked returned); every other step of
\* such a request, the one where it fails before the commit included, changes
\* neither; and so in every committed state each book's available_copies is
\* total_copies minus the number of its active loans.
C11_CommitTogether ==
    [][LET q == req["r1"]
           b == q.book_id
           n == Len(loans)
       IN /\ (q.op \in {"borrow", "return_book"} /\ InFlight("r1"))
             => IF Completes("r1") /\ req'["r1"].status \in {200, 201}
                THEN /\ books'[b].available_copies # books[b].available_copies
                     /\ IF q.op = "borrow"
                        THEN /\ Len(loans') = n + 1
                             /\ loans'[n + 1].book_id = b
                             /\ loans'[n + 1].returned_at = NULL
                        ELSE /\ loans[q.loan_id].returned_at = NULL
                             /\ loans'[q.loan_id].returned_at # NULL
                ELSE UNCHANGED <<books, loans>>
          /\ \A t \in DOMAIN books' :
                books'[t].total_copies - books'[t].available_copies =
                    Cardinality({i \in 1..Len(loans') :
                                    loans'[i].book_id = t /\ loans'[i].returned_at = NULL})
      ]_vars

\* C11 witness: a return_book was stopped with an error, and the loans still
\* out and the counter of their book still agree
C11_Witness ==
    /\ req["r1"].pc = "done" /\ req["r1"].op = "return_book" /\ req["r1"].status = 500
    /\ \E i \in 1..Len(loans) :
          /\ loans[i].returned_at = NULL
          /\ loans[i].book_id \in DOMAIN books
          /\ books[loans[i].book_id].available_copies = 0

\* C12: a loan row is created with returned_at NULL; the only change a loan
\* row ever sees is returned_at going from NULL to a time, in the step that
\* ends a return_book of that loan; once returned_at is set it keeps its
\* value; and no step, a delete_book of the loan's book included, removes a
\* loan row.
C12_LoanStateMachine ==
    [][/\ Len(loans') >= Len(loans)
       /\ \A i \in 1..Len(loans) :
             /\ loans'[i].user_id = loans[i].user_id
             /\ loans'[i].book_id = loans[i].book_id
             /\ loans[i].returned_at # NULL
                   => loans'[i].returned_at = loans[i].returned_at
             /\ loans'[i].returned_at # loans[i].returned_at
                   => \E r \in Req : /\ req[r].op = "return_book"
                                     /\ req[r].loan_id = i
                                     /\ Completes(r)
       /\ \A i \in (Len(loans) + 1)..Len(loans') : loans'[i].returned_at = NULL
      ]_vars

\* C13: a borrow that meets a missing book, a book with available_copies = 0,
\* or an active loan of the caller on the book, is answered 404, 409, 409, and
\* no step of it changes books or loans: a borrow changes them only in the
\* step that answers 201.
C13_FailedBorrowNoEffect ==
    [][LET q == req["r1"]
           b == q.book_id
       IN (q.op = "borrow" /\ InFlight("r1") /\ req'["r1"] # q)
          => /\ b \notin DOMAIN books
                   => /\ req'["r1"].pc = "done" /\ req'["r1"].status = 404
                      /\ UNCHANGED <<books, loans>>
             /\ (b \in DOMAIN books /\ books[b].available_copies = 0)
                   => /\ req'["r1"].pc = "done" /\ req'["r1"].status = 409
                      /\ UNCHANGED <<books, loans>>
             /\ (b \in DOMAIN books /\ books[b].available_copies > 0
                   /\ ActivePair(q.uid, b) # {})
                   => /\ req'["r1"].pc = "done" => req'["r1"].status = 409
                      /\ UNCHANGED <<books, loans>>
             /\ ~(req'["r1"].pc = "done" /\ req'["r1"].status = 201)
                   => UNCHANGED <<books, loans>>
      ]_vars

\* C13 witness: the caller's second borrow of a book that has a copy left was
\* answered 409
C13_Witness ==
    /\ req["r1"].pc = "done" /\ req["r1"].op = "borrow" /\ req["r1"].status = 409
    /\ req["r1"].book_id \in DOMAIN books
    /\ books[req["r1"].book_id].available_copies > 0
    /\ ActivePair(req["r1"].uid, req["r1"].book_id) # {}

\* C14: a create_book changes the catalog only in the step that answers 201,
\* which adds one row with the request's isbn, its total_copies >= 1 and
\* available_copies = total_copies, the isbn being new; a create_book that
\* finds its isbn in the catalog is answered 400 and no step of it changes
\* the catalog; and no two rows of books ever have the same isbn.
C14_CreateTitle ==
    [][/\ \A r \in Req :
             (req[r].op = "create_book" /\ InFlight(r) /\ req'[r] # req[r])
             => /\ IsbnExists(req[r].isbn)
                   => /\ UNCHANGED books
                      /\ req[r].pc = "run"
                            => req'[r].pc = "done" /\ req'[r].status = 400
                /\ IF req'[r].pc = "done" /\ req'[r].status = 201
                   THEN LET id == req'[r].book_id
                        IN /\ id \notin DOMAIN books
                           /\ DOMAIN books' = DOMAIN books \cup {id}
                           /\ \A i \in DOMAIN books : books'[i] = books[i]
                           /\ books'[id].isbn = req[r].isbn
                           /\ books'[id].total_copies = req[r].total
                           /\ books'[id].total_copies >= 1
                           /\ books'[id].available_copies = books'[id].total_copies
                   ELSE UNCHANGED books
       /\ \A i, j \in DOMAIN books' : books'[i].isbn = books'[j].isbn => i = j
      ]_vars

\* C14 witness: two titles are in the catalog, and a create_book with the isbn
\* of one of them was answered 400
C14_Witness ==
    /\ Cardinality(DOMAIN books) = 2
    /\ \E r \in Req : /\ req[r].pc = "done" /\ req[r].op = "create_book"
                      /\ req[r].status = 400

\* C18: in every interleaving, a step of a borrow, a return_book or a
\* delete_book leaves every other book than the one it is about (the book of
\* the request, or of the loan it returns) in the catalog with the same
\* total_copies and available_copies, and leaves the loans of every other
\* book as they are: none changed, none added.
C18_OtherTitlesUntouched ==
    [][\A r \in Req :
          (/\ req[r].op \in {"borrow", "return_book", "delete_book"}
           /\ InFlight(r) /\ req'[r] # req[r])
          => LET a == IF req[r].op = "return_book"
                      THEN IF req[r].loan_id \in 1..Len(loans)
                           THEN loans[req[r].loan_id].book_id ELSE 0
                      ELSE req[r].book_id
             IN \A b \in DOMAIN books \ {a} :
                   /\ b \in DOMAIN books'
                   /\ books'[b] = books[b]
                   /\ \A i \in 1..Len(loans') :
                         IF i <= Len(loans)
                         THEN (loans[i].book_id = b \/ loans'[i].book_id = b)
                                  => loans'[i] = loans[i]
                         ELSE loans'[i].book_id # b
      ]_vars

\* C18 witness: two titles, each with a loan, and the return of the loan of
\* one of them has been answered 200
C18_Witness ==
    /\ Cardinality(DOMAIN books) = 2
    /\ \A b \in DOMAIN books : BookLoans(b) # {}
    /\ \E r \in Req : /\ req[r].pc = "done" /\ req[r].op = "return_book"
                      /\ req[r].status = 200

\* C15: my_loans answers 200 with the loans whose user_id is the caller's,
\* returned ones and active ones, and no other loan, each once, the later
\* created (the larger id) before the earlier; so right after a borrow of the
\* caller was answered 201, the first element is the loan of that borrow.
C15_MyLoans ==
    [][LET q == req["r1"]
           out == req'["r1"].out
       IN (q.op = "my_loans" /\ Completes("r1"))
          => /\ req'["r1"].status = 200
             /\ {out[k] : k \in 1..Len(out)} =
                    {i \in 1..Len(loans) : loans[i].user_id = q.uid}
             /\ \A j, k \in 1..Len(out) : j < k => out[j] > out[k]
             /\ (last.op = "borrow" /\ loans[last.loan_id].user_id = q.uid)
                   => Len(out) >= 1 /\ out[1] = last.loan_id
      ]_vars

\* C15 witness: the answer to my_loans right after the caller's borrow has two
\* loans, the new active one first and a returned one after it
C15_Witness ==
    /\ req["r1"].pc = "done" /\ req["r1"].op = "my_loans"
    /\ Len(req["r1"].out) = 2
    /\ last.op = "borrow" /\ req["r1"].out[1] = last.loan_id
    /\ loans[req["r1"].out[1]].returned_at = NULL
    /\ loans[req["r1"].out[2]].returned_at # NULL

\* C16: the step of a borrow that answers 201 takes exactly one from the
\* available_copies of the book the request named, leaves the other books and
\* the loans there were as they are, and adds exactly one loan: active, of
\* that book, owned by the caller, the one the response carries; and no step
\* adds a loan owned by anyone but the caller of a borrow that is being
\* handled.
C16_BorrowEffect ==
    [][LET n == Len(loans)
       IN /\ \A r \in Req :
                (req[r].op = "borrow" /\ Completes(r) /\ req'[r].status = 201)
                => LET b == req[r].book_id
                   IN /\ b \in DOMAIN books /\ DOMAIN books' = DOMAIN books
                      /\ books'[b].available_copies = books[b].available_copies - 1
                      /\ books'[b].total_copies = books[b].total_copies
                      /\ \A t \in DOMAIN books \ {b} : books'[t] = books[t]
                      /\ Len(loans') = n + 1
                      /\ \A i \in 1..n : loans'[i] = loans[i]
                      /\ loans'[n + 1] = [user_id |-> req[r].uid, book_id |-> b,
                                          returned_at |-> NULL]
                      /\ req'[r].loan_id = n + 1
          /\ \A i \in (n + 1)..Len(loans') :
                \E r \in Req : /\ req[r].op = "borrow" /\ Completes(r)
                               /\ req[r].uid \in 1..Len(users)
                               /\ loans'[i].user_id = req[r].uid
      ]_vars

\* C16 witness: alice's borrow was answered 201; the loan is hers and the
\* book has one copy less than her request read, while the admin has a loan
\* too
C16_Witness ==
    /\ req["r1"].pc = "done" /\ req["r1"].op = "borrow" /\ req["r1"].status = 201
    /\ req["r1"].uid = 2
    /\ loans[req["r1"].loan_id].user_id = 2
    /\ books[req["r1"].book_id].available_copies = req["r1"].avail - 1
    /\ \E i \in 1..Len(loans) : loans[i].user_id = 1

\* C17: return_book checks in the order 404, 403, 409: a loan id that is not
\* in the table gives 404; on a loan of the table a caller who is neither its
\* owner nor an admin gets 403, also when the loan is returned already; the
\* owner or an admin gets 409 on a returned loan; none of these changes books
\* or loans.  An admin who is not the owner of an active loan is let through,
\* and the request ends with 200, the loan returned and one more in the
\* available_copies of the loan's book.
C17_ReturnGuardOrder ==
    [][LET q == req["r1"]
           l == q.loan_id
       IN (q.op = "return_book" /\ InFlight("r1") /\ req'["r1"] # q)
          => IF l \notin 1..Len(loans)
             THEN /\ req'["r1"].pc = "done" /\ req'["r1"].status = 404
                  /\ UNCHANGED <<books, loans>>
             ELSE LET owner == loans[l].user_id = q.uid
                      admin == users[q.uid].is_admin
                      returned == loans[l].returned_at # NULL
                      b == loans[l].book_id
                  IN /\ (~owner /\ ~admin)
                        => /\ req'["r1"].pc = "done" /\ req'["r1"].status = 403
                           /\ UNCHANGED <<books, loans>>
                     /\ ((owner \/ admin) /\ returned)
                        => /\ req'["r1"].pc = "done" /\ req'["r1"].status = 409
                           /\ UNCHANGED <<books, loans>>
                     /\ (~owner /\ admin /\ ~returned)
                        => IF req'["r1"].pc = "done"
                           THEN /\ req'["r1"].status = 200
                                /\ loans'[l].returned_at # NULL
                                /\ books'[b].available_copies =
                                       books[b].available_copies + 1
                           ELSE UNCHANGED <<books, loans>>
      ]_vars

\* C17 witness: alice was answered 403 when every loan of the table is
\* returned and the admin's, right after the return of such a loan was
\* answered 200
C17_Witness ==
    /\ req["r1"].pc = "done" /\ req["r1"].op = "return_book" /\ req["r1"].status = 403
    /\ Len(loans) >= 1
    /\ \A i \in 1..Len(loans) : loans[i].user_id = 1 /\ loans[i].returned_at # NULL
    /\ last.op = "return_book"

\* C19: two return_book requests for the same loan, one by its owner and one
\* by an admin who is not the owner, handled at the same time while the loan
\* is active: once one of them has been answered 200, the other is answered
\* 409 and does not change the book, so that available_copies goes up by one
\* in all.
C19_ConcurrentReturns ==
    [][\A r, s \in Req :
          (/\ r # s /\ {r, s} \in overlap
           /\ req[s].pc = "done" /\ req[s].op = "return_book" /\ req[s].status = 200
           /\ req[r].op = "return_book" /\ Completes(r)
           /\ req[r].loan_id = req[s].loan_id
           /\ LET o == loans[req[r].loan_id].user_id
              IN \/ req[s].uid = o /\ req[r].uid # o /\ req[r].adm
                 \/ req[r].uid = o /\ req[s].uid # o /\ users[req[s].uid].is_admin)
          => /\ req'[r].status = 409
             /\ UNCHANGED books
      ]_vars

\* C20: no step removes a user or changes the is_admin of a user there is;
\* every user a signup adds has is_admin = FALSE, so the admins are always
\* the users seeded at startup (user 1); hence the requests that reach a
\* handler of create_book or delete_book are the seeded admin's, and a loan
\* is only ever marked returned by a request of its owner or of the seeded
\* admin.
C20_AdminFlagConstant ==
    [][/\ Len(users') >= Len(users)
       /\ \A i \in 1..Len(users) : users'[i] = users[i]
       /\ \A i \in (Len(users) + 1)..Len(users') : ~users'[i].is_admin
       /\ \A i \in 1..Len(users') : users'[i].is_admin <=> i = 1
       /\ \A r \in Req :
             /\ (req'[r].pc \notin {"idle", "done"} /\ req'[r].op \in AdminOps)
                   => req'[r].uid = 1
             /\ \A l \in 1..Len(loans) :
                   (req[r].op = "return_book" /\ req[r].loan_id = l
                    /\ loans'[l].returned_at # loans[l].returned_at)
                   => req[r].uid \in {loans[l].user_id, 1}
      ]_vars

\* C20 witness: alice has signed up and holds a loan, she is no admin, and
\* her delete_book was answered 403
C20_Witness ==
    /\ Len(users) = 2 /\ users[1].is_admin /\ ~users[2].is_admin
    /\ \E i \in 1..Len(loans) : loans[i].user_id = 2
    /\ req["r1"].pc = "done" /\ req["r1"].op = "delete_book" /\ req["r1"].status = 403

=============================================================================
